---- MODULE Spec2Model ----
(***************************************************************************)
(* Miss Meester (src/missmeester.py): a Streamlit script that is executed  *)
(* top to bottom on every user interaction.  One execution ("run") loads   *)
(* the cached Stockfish session, reads the uploaded PGN batch, evaluates   *)
(* every ply of every game, flags tactical moments, releases the engine    *)
(* and shows one tactic selected by the navigation cursor.                 *)
(*                                                                         *)
(* State that survives a run: the st.cache_resource entry holding the      *)
(* engine session, st.session_state.i (the cursor) and the widgets that    *)
(* the last run rendered.  Everything else is a script variable that is    *)
(* rebuilt by the next run.                                                *)
(***************************************************************************)
EXTENDS Integers, Sequences, FiniteSets

\* ------------------------------------------------------------- bounds
\* Largest number of games in one uploaded batch.
MaxGames == 2
\* Largest number of mainline moves in one uploaded batch (all games).
MaxBatchPlies == 4

\* ---------------------------------------------------------- constants
DELTA_SMALL == 100
DELTA_LARGE == 200

\* Python's None, and a present value, for Optional script variables.
None == <<>>
Some(v) == <<v>>

\* Centipawn scores the engine may report for a position.
Scores == {-160, 0, 300}

\* Identifiers uuid.uuid4() may return (enough for one tactic per ply).
Ids == 1..MaxBatchPlies

Abs(x) == IF x < 0 THEN -x ELSE x
Max(a, b) == IF a >= b THEN a ELSE b
Min(a, b) == IF a <= b THEN a ELSE b

RECURSIVE SumSeq(_)
SumSeq(s) == IF s = <<>> THEN 0 ELSE Head(s) + SumSeq(Tail(s))

\* A parsed batch: one entry per game, the number of its mainline moves
\* (every game has at least one move).
BatchesOfLen(n) == {b \in [1..n -> 1..MaxBatchPlies] : SumSeq(b) <= MaxBatchPlies}
Batches == UNION {BatchesOfLen(n) : n \in 0..MaxGames}

\* What the file uploader holds when a run starts: nothing, a file that is
\* blank, or a PGN file with the games read_game finds in it (maybe none).
Uploads == {[kind |-> "none", games |-> <<>>], [kind |-> "blank", games |-> <<>>]}
           \cup {[kind |-> "pgn", games |-> b] : b \in Batches}

\* What engine.analyse can do on a live session: report a score, raise for
\* this position only, or raise because the engine process died.
Outcomes == {[kind |-> "ok", score |-> s] : s \in Scores}
            \cup {[kind |-> "raise", score |-> 0], [kind |-> "die", score |-> 0]}

VARIABLES
    pc,            \* position of the script: idle (between runs), game, ply,
                   \* quit, nav, shown, stopped, crashed
    engine,        \* cache_resource entry: "absent", or the session it holds:
                   \* "open", "closed" (released by quit) or "dead" (process died)
    session_i,     \* st.session_state.i: None (key absent) or Some(cursor)
    buttons_shown, \* the previous run rendered the Vorige/Volgende buttons
    acquired,      \* this run started the engine session (cache miss)
    games,         \* the batch of this run
    gi,            \* 1-based number of the game in the for loop (0 before it)
    ply,           \* 0-based index of the next ply of game gi
    prev_eval,     \* None or Some(score of the previous ply)
    eval_seq,      \* scores recorded for game gi so far
    outc,          \* kinds of the evaluation outcomes of game gi so far
    res,           \* None or Some(<<game, ply>>) the last analyse result is for
    all_tactics,   \* the tactic records, in detection order
    index_map,     \* identifier -> 0-based position in all_tactics
    progress,      \* values given to progress.progress, as <<gi, N>>
    deadAt,        \* game in which an evaluation first met a dead engine (0: none)
    nav            \* None or Some(inputs of the navigation step of this run)

vars == <<pc, engine, session_i, buttons_shown, acquired, games, gi, ply,
          prev_eval, eval_seq, outc, res, all_tactics, index_map, progress,
          deadAt, nav>>

EmptyMap == [x \in {} |-> 0]

\* The script variables before the analysis of a run has assigned them.
LocalsCleared ==
    /\ games' = <<>>
    /\ gi' = 0
    /\ ply' = 0
    /\ prev_eval' = None
    /\ eval_seq' = <<>>
    /\ outc' = <<>>
    /\ res' = None
    /\ all_tactics' = <<>>
    /\ index_map' = EmptyMap
    /\ progress' = <<>>
    /\ deadAt' = 0
    /\ nav' = None

Init ==
    /\ pc = "idle"
    /\ engine = "absent"
    /\ session_i = None
    /\ buttons_shown = FALSE
    /\ acquired = FALSE
    /\ games = <<>>
    /\ gi = 0
    /\ ply = 0
    /\ prev_eval = None
    /\ eval_seq = <<>>
    /\ outc = <<>>
    /\ res = None
    /\ all_tactics = <<>>
    /\ index_map = EmptyMap
    /\ progress = <<>>
    /\ deadAt = 0
    /\ nav = None

\* ------------------------------------------------ lines 68-108: run start
\* list(game.mainline_moves()) of game g: its moves, told apart by <<g, k>>.
MovesOf(b, g) == [k \in 1..b[g] |-> <<g, k>>]

\* A run starts: init_engine returns the cached session or starts one
\* (popen_ok tells whether Stockfish can be started), then the upload is
\* checked and parsed.  Every st.stop() ends the run at once.
StartRun(up, popen_ok) ==
    /\ pc = "idle"
    /\ LET miss == (engine = "absent")
           started == miss /\ popen_ok
           failed == miss /\ ~popen_ok
           ready == ~failed /\ up.kind = "pgn" /\ up.games # <<>>
       IN /\ engine' = IF started THEN "open" ELSE engine
          /\ acquired' = started
          /\ pc' = IF ready THEN "game" ELSE "stopped"
          /\ games' = IF ready THEN up.games ELSE <<>>
    /\ gi' = 0
    /\ ply' = 0
    /\ prev_eval' = None
    /\ eval_seq' = <<>>
    /\ outc' = <<>>
    /\ res' = None
    /\ all_tactics' = <<>>
    /\ index_map' = EmptyMap
    /\ progress' = <<>>
    /\ deadAt' = 0
    /\ nav' = None
    /\ UNCHANGED <<session_i, buttons_shown>>

\* ---------------------------------------- lines 110-115: for-loop header
\* The reset of line 112 left out: prev_eval keeps the last score of the
\* game before.
GamePrevStale == prev_eval

\* Line 112: value of prev_eval at the start of a game.
GamePrevInit == None

NextGame ==
    /\ pc = "game"
    /\ IF gi < Len(games)
       THEN /\ gi' = gi + 1
            /\ ply' = 0
            /\ prev_eval' = GamePrevInit
            /\ eval_seq' = <<>>
            /\ outc' = <<>>
            /\ pc' = "ply"
       ELSE /\ pc' = "quit"
            /\ UNCHANGED <<gi, ply, prev_eval, eval_seq, outc>>
    /\ UNCHANGED <<engine, session_i, buttons_shown, acquired, games, res,
                   all_tactics, index_map, progress, deadAt, nav>>

\* ------------------------------------------ lines 117-147: one ply
\* `x or 0` of line 121: score(mate_score=True) yields an integer for
\* centipawn and mate scores alike, and `or` turns a falsy 0 into 0.
OrZero(x) == IF x = 0 THEN 0 ELSE x

\* Line 123 substituting 0 whenever the evaluation raised.
FailScoreZero(prev) == 0

\* Line 123: the score recorded when the evaluation raised.
FailScore(prev) == IF prev # None THEN prev[1] ELSE 0

\* Line 129 comparing the new score with DELTA_SMALL instead of DELTA_LARGE.
FlagRuleWeakGain(prev, score) ==
    LET delta == score - prev
        gain == Abs(prev) < DELTA_SMALL /\ Abs(score) > DELTA_SMALL
        loss == prev > DELTA_LARGE /\ delta < -DELTA_LARGE
        flip == prev * score < 0 /\ Abs(delta) > DELTA_LARGE
    IN Abs(delta) > DELTA_SMALL /\ (gain \/ loss \/ flip)

\* Lines 128-133: the flag rule on the previous and the current score.
FlagRule(prev, score) ==
    LET delta == score - prev
        gain == Abs(prev) < DELTA_SMALL /\ Abs(score) > DELTA_LARGE
        loss == prev > DELTA_LARGE /\ delta < -DELTA_LARGE
        flip == prev * score < 0 /\ Abs(delta) > DELTA_LARGE
    IN Abs(delta) > DELTA_SMALL /\ (gain \/ loss \/ flip)

\* Line 126: whether the flag rule is applied to this ply at all.
HasPrev(prev) == prev # None

\* Line 134: uuid4 returns an identifier no record of this run has.
Uuid4(used) == CHOOSE x \in Ids \ used : \A y \in Ids \ used : y <= x

\* Line 117 enumerating from 1: the record holds a 1-based ply.
RecordPlyOneBased(p) == p + 1

\* Lines 117, 138: the ply stored in the record is the 0-based loop index.
RecordPly(p) == p

\* Line 142 copying the list as it was before the append of line 124.
SeqCopyBeforeAppend(s) == SubSeq(s, 1, Len(s) - 1)

\* Line 142: the sequence stored in the record.
SeqCopy(s) == s

\* Line 145 run after line 146: the position is taken after the append.
NewPositionAfterAppend(tactics) == Len(tactics) + 1

\* Line 145: the position entered into index_map for a new record.
NewPosition(tactics) == Len(tactics)

\* Line 147: prev_eval after the ply.
NextPrev(prev, score) == Some(score)

\* Lines 119-123: `except Exception` catches whatever the evaluation raised,
\* so the script stays in the loop after any outcome.
AfterEval(kind) == "ply"

EvalPly(o) ==
    /\ pc = "ply"
    /\ ply < games[gi]
    /\ o \in Outcomes
    /\ engine # "open" => o.kind = "raise"
    /\ LET dead == engine # "open" \/ o.kind = "die"
           ok == o.kind = "ok"
           res1 == IF ok THEN Some(<<gi, ply>>) ELSE res
           score == IF ok THEN OrZero(o.score) ELSE FailScore(prev_eval)
           seq1 == Append(eval_seq, score)
           flagged == HasPrev(prev_eval) /\ FlagRule(prev_eval[1], score)
           tid == Uuid4(DOMAIN index_map)
           tactic == [id |-> tid, game |-> gi, ply |-> RecordPly(ply), fen |-> <<gi, ply>>,
                      best_move |-> res1, delta |-> score - prev_eval[1],
                      eval_seq |-> SeqCopy(seq1), moves |-> MovesOf(games, gi)]
       IN /\ engine' = IF o.kind = "die" THEN "dead" ELSE engine
          /\ deadAt' = IF dead /\ deadAt = 0 THEN gi ELSE deadAt
          /\ res' = res1
          /\ eval_seq' = seq1
          /\ outc' = Append(outc, IF dead THEN "dead" ELSE o.kind)
          /\ IF flagged
             THEN /\ index_map' = [x \in DOMAIN index_map \cup {tid} |->
                                     IF x = tid THEN NewPosition(all_tactics)
                                     ELSE index_map[x]]
                  /\ all_tactics' = Append(all_tactics, tactic)
             ELSE UNCHANGED <<index_map, all_tactics>>
          /\ prev_eval' = NextPrev(prev_eval, score)
    /\ ply' = ply + 1
    /\ pc' = AfterEval(o.kind)
    /\ UNCHANGED <<session_i, buttons_shown, acquired, games, gi,
                   progress, nav>>

\* Line 110 enumerating from 0: the fraction lags one game behind.
ProgressValueFromZero(g, n) == <<g - 1, n>>

\* Line 148: the fraction gi / len(games), as <<numerator, denominator>>.
ProgressValue(g, n) == <<g, n>>

\* Line 148: the game's moves are exhausted, progress is reported.
EndGame ==
    /\ pc = "ply"
    /\ ply = games[gi]
    /\ progress' = Append(progress, ProgressValue(gi, Len(games)))
    /\ pc' = "game"
    /\ UNCHANGED <<engine, session_i, buttons_shown, acquired, games, gi, ply,
                   prev_eval, eval_seq, outc, res, all_tactics, index_map,
                   deadAt, nav>>

\* ------------------------------------------------ line 150: engine.quit()
\* quit() on a session that is already shut down (released or dead) raises
\* EngineTerminatedError, which nothing catches: the run ends there.
Quit ==
    /\ pc = "quit"
    /\ IF engine = "open"
       THEN engine' = "closed" /\ pc' = "nav"
       ELSE engine' = engine /\ pc' = "crashed"
    /\ UNCHANGED <<session_i, buttons_shown, acquired, games, gi, ply,
                   prev_eval, eval_seq, outc, res, all_tactics, index_map,
                   progress, deadAt, nav>>

\* ------------------------------------------- lines 167-181: navigation
\* Lines 168-169: the cursor when the navigation starts.
CursorAtEntry(si) == IF si = None THEN 0 ELSE si[1]

\* Line 172.
StepBack(i) == Max(0, i - 1)

\* Line 174.
StepForward(i, count) == Min(count - 1, i + 1)

\* Lines 177-179.
Jump(i, sel, index) == IF sel \in DOMAIN index THEN index[sel] ELSE i

\* Lines 177-179 placed before the buttons: a step moves away from the
\* selected record.
NavigatedJumpFirst(i0, bp, bn, sel, index, count) ==
    LET j == Jump(i0, sel, index)
        i1 == IF bp THEN StepBack(j) ELSE j
    IN IF bn THEN StepForward(i1, count) ELSE i1

\* Lines 171-179: the buttons first, the query selector last.
Navigated(i0, bp, bn, sel, index, count) ==
    LET i1 == IF bp THEN StepBack(i0) ELSE i0
        i2 == IF bn THEN StepForward(i1, count) ELSE i1
    IN Jump(i2, sel, index)

\* Lines 171-174: the cursor after the buttons.
Stepped(i0, bp, bn, count) ==
    LET i1 == IF bp THEN StepBack(i0) ELSE i0
    IN IF bn THEN StepForward(i1, count) ELSE i1

\* bp, bn: the button that caused this run, if any (a button can be pressed
\* only if the previous run rendered it); sel: ?opgave=, 0 when absent.
\* st.progress (line 175) rejects a value above 1, that is a cursor past the
\* end, before the selector is read; all_tactics[i] (line 181) raises
\* IndexError past the end.
Navigate(bp, bn, sel) ==
    /\ pc = "nav"
    /\ ~(bp /\ bn)
    /\ (bp \/ bn) => buttons_shown
    /\ IF all_tactics = <<>>
       THEN /\ ~bp /\ ~bn /\ sel = 0
            /\ pc' = "shown"
            /\ UNCHANGED <<session_i, nav>>
       ELSE LET i0 == CursorAtEntry(session_i)
                count == Len(all_tactics)
                stepped == Stepped(i0, bp, bn, count)
                i == Navigated(i0, bp, bn, sel, index_map, count)
            IN /\ nav' = Some([prev |-> bp, next |-> bn, sel |-> sel,
                               entry |-> i0])
               /\ IF stepped + 1 > count
                  THEN session_i' = Some(stepped) /\ pc' = "crashed"
                  ELSE /\ session_i' = Some(i)
                       /\ pc' = IF i < count THEN "shown" ELSE "crashed"
    /\ UNCHANGED <<engine, buttons_shown, acquired, games, gi, ply, prev_eval,
                   eval_seq, outc, res, all_tactics, index_map, progress,
                   deadAt>>

\* ------------------------------------------------------ between runs
RunEnded == pc \in {"shown", "stopped", "crashed"}

\* The script variables do not outlive the run; the page keeps the buttons
\* only if this run reached lines 171-173.
EndRun ==
    /\ RunEnded
    /\ pc' = "idle"
    /\ acquired' = FALSE
    /\ buttons_shown' = (nav # None)
    /\ LocalsCleared
    /\ UNCHANGED <<engine, session_i>>

\* The cache_resource entry is dropped (Clear cache): the next run calls
\* init_engine's body again.
ClearCache ==
    /\ pc = "idle"
    /\ engine # "absent"
    /\ engine' = "absent"
    /\ UNCHANGED <<pc, session_i, buttons_shown, acquired, games, gi, ply,
                   prev_eval, eval_seq, outc, res, all_tactics, index_map,
                   progress, deadAt, nav>>

Next ==
    \/ \E up \in Uploads, popen_ok \in BOOLEAN : StartRun(up, popen_ok)
    \/ NextGame
    \/ \E o \in Outcomes : EvalPly(o)
    \/ EndGame
    \/ Quit
    \/ \E bp \in BOOLEAN, bn \in BOOLEAN, sel \in {0} \cup Ids : Navigate(bp, bn, sel)
    \/ EndRun
    \/ ClearCache

Spec == Init /\ [][Next]_vars

\* ====================================================================
\* Properties
\* ====================================================================
\* Ply p (0-based) of game g has a tactic record.
Flagged(g, p) ==
    \E k \in 1..Len(all_tactics) : all_tactics[k].game = g /\ all_tactics[k].ply = p

RecordOf(g, p) ==
    all_tactics[CHOOSE k \in 1..Len(all_tactics) :
                    all_tactics[k].game = g /\ all_tactics[k].ply = p]

\* The evaluation of entry k (1-based) of the current game produced a score.
Available(k) == outc[k] = "ok"

\* The last entry before k of the current game with an available score,
\* 0 when there is none.
LastAvail(k) ==
    LET S == {j \in 1..(k - 1) : Available(j)}
    IN IF S = {} THEN 0 ELSE CHOOSE j \in S : \A m \in S : m <= j

\* The flag rule as the specification words it.
IsGain(prev, cur) == Abs(prev) < 100 /\ Abs(cur) > 200
IsLoss(prev, cur) == prev > 200 /\ cur - prev < -200
IsFlip(prev, cur) ==
    /\ (prev < 0 /\ cur > 0) \/ (prev > 0 /\ cur < 0)
    /\ Abs(cur - prev) > 200
TacticalMoment(prev, cur) ==
    /\ Abs(cur - prev) > 100
    /\ IsGain(prev, cur) \/ IsLoss(prev, cur) \/ IsFlip(prev, cur)

\* C1: a ply with an available score cur whose game has an earlier available
\* score (prev, the last one) has a tactic record iff |cur - prev| > 100 and
\* gain, loss or flip holds, and the record's delta is cur - prev; the rule
\* flags 50->260, 300->50 and 150->-160 and does not flag 30->90.
C1_FlagIffRule ==
    /\ \A k \in 1..Len(eval_seq) :
          (Available(k) /\ LastAvail(k) # 0) =>
             LET prev == eval_seq[LastAvail(k)]
                 cur == eval_seq[k]
             IN /\ Flagged(gi, k - 1) <=> TacticalMoment(prev, cur)
                /\ Flagged(gi, k - 1) => RecordOf(gi, k - 1).delta = cur - prev
    /\ FlagRule(50, 260) /\ FlagRule(300, 50) /\ FlagRule(150, -160)
    /\ ~FlagRule(30, 90)

\* C1 witness: one game holds a flagged ply compared across a failed ply,
\* and an available ply that moved by more than 100 without being flagged.
C1_Witness ==
    /\ \E k \in 1..Len(eval_seq) :
          /\ Available(k) /\ LastAvail(k) # 0 /\ LastAvail(k) < k - 1
          /\ Flagged(gi, k - 1)
    /\ \E k \in 1..Len(eval_seq) :
          /\ Available(k) /\ LastAvail(k) # 0
          /\ Abs(eval_seq[k] - eval_seq[LastAvail(k)]) > 100
          /\ ~Flagged(gi, k - 1)

\* C2: a ply is never flagged when its own evaluation is unavailable or when
\* no earlier ply of the game has an available score (nothing substituted
\* for a missing score is ever compared against).
C2_NoFlagWithoutTwoScores ==
    \A k \in 1..Len(eval_seq) :
       (~Available(k) \/ LastAvail(k) = 0) => ~Flagged(gi, k - 1)

\* C3: the entry recorded for a ply whose score is unavailable is a gap
\* marker, not a number (so never the number 0).
C3_GapMarkerRecorded ==
    \A k \in 1..Len(eval_seq) : ~Available(k) => eval_seq[k] \notin Int

\* C4: in every game of the batch, ply 0 has no tactic record.
C4_FirstPlyNeverFlagged ==
    \A g \in 1..Len(games) : ~Flagged(g, 0)

\* C4 witness: the first ply of the second game got a score that the flag
\* rule accepts against the last score of the first game.
C4_Witness ==
    /\ gi = 2 /\ Len(eval_seq) = 1 /\ Available(1)
    /\ Flagged(1, games[1] - 1)
    /\ LET last == RecordOf(1, games[1] - 1).eval_seq
       IN TacticalMoment(last[Len(last)], eval_seq[1])

\* C5: after the navigation step on a non-empty index the cursor is within
\* [0, count-1], and when no button is pressed and the selector names no
\* known identifier the cursor is the one the step started with.
C5_CursorInRange ==
    (nav # None) =>
       /\ session_i[1] \in 0..(Len(all_tactics) - 1)
       /\ (~nav[1].prev /\ ~nav[1].next /\ nav[1].sel \notin DOMAIN index_map)
             => session_i[1] = nav[1].entry

\* C6: the navigation of a run, which follows the rebuild of the index,
\* starts with the cursor at the first record.
C6_CursorResetOnRebuild ==
    (nav # None) => nav[1].entry = 0

\* Lines 181-199: the evaluation sequences the consumers of a run can reach
\* for game g are those stored in its tactic records.
OutputEvalSeqs(g) ==
    {all_tactics[k].eval_seq : k \in {j \in 1..Len(all_tactics) : all_tactics[j].game = g}}

\* C7: once the batch is analysed the output holds, for every game, an
\* evaluation sequence as long as the game's move list.
C7_EveryGameHasFullSeq ==
    pc \in {"nav", "shown"} =>
       \A g \in 1..Len(games) : \E s \in OutputEvalSeqs(g) : Len(s) = games[g]

\* C8: a run that started the engine session does not end with the session
\* still open.
C8_SessionReleased ==
    (RunEnded /\ acquired) => engine # "open"

\* C9: once an evaluation has met a dead engine, no later game of the batch
\* is processed and the run does not go on to show results.
C9_DeadEngineAborts ==
    (deadAt # 0) => (gi = deadAt /\ pc \notin {"nav", "shown"})

RecordIds == {all_tactics[k].id : k \in 1..Len(all_tactics)}

\* C11: no two tactic records share an identifier, the index is defined
\* exactly on the identifiers of the records, and index[id] = k (0-based)
\* iff record k has identifier id.
C11_IndexMatchesRecords ==
    /\ \A j, k \in 1..Len(all_tactics) :
          all_tactics[j].id = all_tactics[k].id => j = k
    /\ DOMAIN index_map = RecordIds
    /\ \A id \in Ids : \A k \in 1..Len(all_tactics) :
          (id \in DOMAIN index_map /\ index_map[id] = k - 1) <=> all_tactics[k].id = id

\* C11 witness: mid-batch, the index holds records of two games.
C11_Witness ==
    /\ pc = "ply"
    /\ Len(all_tactics) >= 2
    /\ all_tactics[1].game = 1
    /\ all_tactics[Len(all_tactics)].game = 2

\* C12: the k-th progress report is the fraction k/N; while game gi is being
\* evaluated exactly the games before it have been reported, after the loop
\* all N have (the last report is N/N = 1); records appear in game order.
C12_SequentialProgress ==
    /\ \A k \in 1..Len(progress) :
          progress[k][1] * Len(games) = k * progress[k][2] /\ progress[k][2] > 0
    /\ pc = "ply" => Len(progress) = gi - 1
    /\ pc = "game" => Len(progress) = gi
    /\ pc \in {"quit", "nav", "shown"} =>
          /\ Len(progress) = Len(games)
          /\ progress[Len(progress)][1] = progress[Len(progress)][2]
    /\ \A j, k \in 1..Len(all_tactics) :
          j <= k => (all_tactics[j].game <= all_tactics[k].game
                     /\ all_tactics[k].game <= gi)

\* C12 witness: a ply of the second game of two has been evaluated and the
\* only report so far is 1/2.
C12_Witness ==
    /\ pc = "ply" /\ gi = 2 /\ Len(games) = 2
    /\ Len(eval_seq) >= 1
    /\ progress = <<<<1, 2>>>>

\* C13: every tactic record's ply is an index into the move list of its own
\* game (0 <= ply < move count), and the record's moves are all the moves of
\* that game, in order.
C13_PlyWithinGame ==
    \A k \in 1..Len(all_tactics) :
       LET t == all_tactics[k]
       IN /\ t.game \in 1..Len(games)
          /\ 0 <= t.ply /\ t.ply < games[t.game]
          /\ Len(t.moves) = games[t.game]
          /\ \A n \in 1..Len(t.moves) : t.moves[n] = <<t.game, n>>

\* C13 witness: the last ply of the second game is flagged, the two games
\* differing in length.
C13_Witness ==
    /\ Len(games) = 2 /\ games[1] # games[2]
    /\ Flagged(2, games[2] - 1)

\* C14: the sequence stored in a tactic record has ply+1 entries, its last
\* entry is the score that triggered the flag (the entry before it plus the
\* record's delta, a tactical moment), and it stays the prefix of its game's
\* scores that it was when stored, whatever is evaluated afterwards.
C14_SeqUpToOwnPly ==
    \A k \in 1..Len(all_tactics) :
       LET t == all_tactics[k]
           n == Len(t.eval_seq)
       IN /\ n = t.ply + 1
          /\ n >= 2
          /\ t.eval_seq[n] = t.eval_seq[n - 1] + t.delta
          /\ TacticalMoment(t.eval_seq[n - 1], t.eval_seq[n])
          /\ t.game = gi => t.eval_seq = SubSeq(eval_seq, 1, n)

\* C14 witness: after a ply of the current game was flagged, a later ply of
\* that game was evaluated with another score.
C14_Witness ==
    \E k \in 1..Len(all_tactics) :
       LET t == all_tactics[k]
       IN /\ t.game = gi
          /\ Len(eval_seq) > t.ply + 1
          /\ eval_seq[Len(eval_seq)] # t.eval_seq[Len(t.eval_seq)]

\* C15: no position is evaluated on a session that an earlier run released:
\* while a batch is analysed and a position has been submitted, the cached
\* session is not one that quit() has closed.
C15_NoEvalOnReleasedSession ==
    (pc \in {"ply", "game"} /\ Len(eval_seq) > 0) => engine # "closed"

\* C16: a ply whose evaluation failed, in a game that already has a
\* previous score, has no tactic record; and the suggested move of every
\* record comes from the evaluation result of the record's own position.
C16_BestMoveFromOwnPly ==
    /\ \A k \in 2..Len(eval_seq) : ~Available(k) => ~Flagged(gi, k - 1)
    /\ \A k \in 1..Len(all_tactics) :
          all_tactics[k].best_move = Some(<<all_tactics[k].game, all_tactics[k].ply>>)

\* C16 witness: an evaluation failed after the game had a score, leaving the
\* result of an earlier ply in place, and a later ply of the game is flagged.
C16_Witness ==
    \E k \in 2..Len(eval_seq) :
       /\ ~Available(k)
       /\ \E j \in (k + 1)..Len(eval_seq) : Flagged(gi, j - 1)

\* C17: when a record is displayed, a selector that names a known
\* identifier decides the cursor (the position of that identifier), whatever
\* button was pressed in the run; otherwise the cursor is the entry cursor
\* moved by the pressed button, clamped to the index.
C17_SelectorOverridesStep ==
    (pc = "shown" /\ nav # None) =>
       LET n == nav[1]
           count == Len(all_tactics)
           cursor == session_i[1]
       IN /\ n.sel \in DOMAIN index_map => cursor = index_map[n.sel]
          /\ n.sel \notin DOMAIN index_map =>
                cursor = IF n.prev THEN (IF n.entry = 0 THEN 0 ELSE n.entry - 1)
                         ELSE IF n.next
                              THEN (IF n.entry + 1 >= count THEN count - 1
                                    ELSE n.entry + 1)
                              ELSE n.entry

\* C17 witness: Volgende was pressed with the cursor at 0 and the selector
\* names the first record: the displayed cursor is 0, not 1.
C17_Witness ==
    /\ pc = "shown" /\ nav # None
    /\ Len(all_tactics) >= 2
    /\ nav[1].next /\ nav[1].entry = 0
    /\ nav[1].sel \in DOMAIN index_map
    /\ index_map[nav[1].sel] = 0
    /\ session_i = Some(0)

====
